---- MODULE Spec2Model ----
(***************************************************************************)
(* A model of the smsc client library (src/smsc): the message classes and  *)
(* their encode(), the response wrappers, and the four API calls of the    *)
(* SMSC client, each with the HTTP reply drawn from a bounded set.         *)
(*                                                                         *)
(* Python values are tagged records so that values of different Python     *)
(* types can be compared: None, int, str, and float (a float is held as a  *)
(* whole number of hundredths).  A dict built by the code is a sequence of *)
(* <<key, value>> pairs in insertion order; a decoded JSON object is a     *)
(* function from keys to values.                                           *)
(***************************************************************************)
EXTENDS Integers, Sequences, FiniteSets, TLC

VARIABLES
    client,   \* the SMSC object: its login, password and sender
    calls,    \* the API call of every invocation so far, in order
    gets,     \* the path of every HTTP GET performed so far, in order
    last      \* the last operation the caller performed, with its outcome

vars == <<client, calls, gets, last>>

----------------------------------------------------------------------------
(* Bounds of the model *)

\* how many characters past the limit the longest text goes
MaxOver == 2
\* the longest list (of phones, of ids, of status objects) tried
MaxList == 2
\* the number of API calls after which the log of GETs stops growing
MaxCalls == 2

----------------------------------------------------------------------------
(* Python values *)

None == [t |-> "None"]
IntV(n) == [t |-> "int", v |-> n]
StrV(s) == [t |-> "str", v |-> s]
FloatV(h) == [t |-> "float", v |-> h]
BoolV(b) == [t |-> "bool", v |-> b]
ListV(items) == [t |-> "list", v |-> items]
DictV(obj) == [t |-> "dict", v |-> obj]

\* bool(v): the truth value Python gives v
Truthy(v) ==
    CASE v.t = "None" -> FALSE
      [] v.t = "bool" -> v.v
      [] v.t = "int" -> v.v # 0
      [] v.t = "float" -> v.v # 0
      [] v.t = "str" -> IF "codes" \in DOMAIN v THEN v.codes # <<>> ELSE v.v # ""
      [] v.t = "list" -> v.v # <<>>
      [] v.t = "dict" -> DOMAIN v.v # {}

\* the empty dict, as a decoded JSON object
EmptyObj == [k \in {} |-> None]

\* obj.get(key, default)
DictGet(obj, key, default) == IF key \in DOMAIN obj THEN obj[key] ELSE default

\* del obj[key] for a key that is present
DictDel(obj, key) == [k \in (DOMAIN obj) \ {key} |-> obj[k]]

\* the keys of a dict built by the code
Keys(d) == {d[i][1] : i \in DOMAIN d}

\* d[key] for a dict built by the code
Item(d, key) == d[CHOOSE i \in DOMAIN d : d[i][1] = key][2]

\* d[key] = value on a dict built by the code: a new key goes last
SetItem(d, key, value) ==
    IF key \in Keys(d)
    THEN [i \in DOMAIN d |-> IF d[i][1] = key THEN <<key, value>> ELSE d[i]]
    ELSE Append(d, <<key, value>>)

\* what a call does: it returns a value or raises an exception of some class
Return(value) == [raised |-> "", value |-> value]
Raise(class) == [raised |-> class, value |-> None]

\* one statement after another: when the step raises, so does the whole;
\* otherwise the outcome is that of the rest
Then(step, rest) ==
    IF step.raised # "" THEN Raise(step.raised) ELSE rest

----------------------------------------------------------------------------
(* smsc/messages.py *)

\* the longest text a message may carry
MaxTextLen == 800

\* Message.__init__
MessageInit(cls, text, msg_format, kwargs) ==
    [cls |-> cls,
     text |-> text,
     format |-> msg_format,
     translit |-> DictGet(kwargs, "translit", None),
     tinyurl |-> DictGet(kwargs, "tinyurl", None),
     maxsms |-> DictGet(kwargs, "maxsms", None)]

\* the check that opens the three constructors: assert len(text) <= 800.
\* debug is the interpreter's __debug__: started with -O, it compiles the
\* assert statements away
TextAccepted(text, debug) == ~debug \/ Len(text) <= MaxTextLen

\* the parameters a constructor names itself: a keyword argument of the same
\* name is refused when the call is bound, before the body runs
OwnNames == {"self", "text"}

\* a constructor's body: the assert, then super().__init__(text,
\* msg_format=..., **kwargs), which is refused when kwargs names msg_format
\* once more
Subclass(cls, text, msg_format, kwargs, debug) ==
    IF OwnNames \cap DOMAIN kwargs # {} THEN Raise("TypeError")
    ELSE IF ~TextAccepted(text, debug) THEN Raise("AssertionError")
    ELSE IF "msg_format" \in DOMAIN kwargs THEN Raise("TypeError")
    ELSE Return(MessageInit(cls, text, msg_format, kwargs))

\* SMSMessage.__init__
SMSMessage(text, kwargs, debug) ==
    Subclass("SMSMessage", text, None, kwargs, debug)

\* FlashMessage.__init__
FlashMessage(text, kwargs, debug) ==
    Subclass("FlashMessage", text, StrV("flash"), kwargs, debug)

\* ViberMessage.__init__
ViberMessage(text, kwargs, debug) ==
    Subclass("ViberMessage", text, StrV("viber"), kwargs, debug)

\* the constructor of the class named cls
NewMessage(cls, text, kwargs, debug) ==
    CASE cls = "SMSMessage" -> SMSMessage(text, kwargs, debug)
      [] cls = "FlashMessage" -> FlashMessage(text, kwargs, debug)
      [] cls = "ViberMessage" -> ViberMessage(text, kwargs, debug)

\* a slip: the parameter is tested for truth, as in "if self._translit:"
OptionGivenTruthy(value) == Truthy(value)

\* the test that decides whether encode() emits an optional parameter
OptionGiven(value) == value # None

\* Message.encode, one optional parameter
EncodeOption(res, key, value) ==
    IF OptionGiven(value) THEN SetItem(res, key, value) ELSE res

\* Message.encode
Encode(m) ==
    LET r0 == <<<<"mes", StrV(m.text)>>>>
        r1 == IF m.format # None /\ m.format # StrV("")
              THEN SetItem(r0, m.format.v, IntV(1))
              ELSE r0
        r2 == EncodeOption(r1, "translit", m.translit)
        r3 == EncodeOption(r2, "tinyurl", m.tinyurl)
    IN  EncodeOption(r3, "maxsms", m.maxsms)

----------------------------------------------------------------------------
(* Python's conversions *)

Digits == <<"0", "1", "2", "3", "4", "5", "6", "7", "8", "9">>

\* the decimal digits that write a natural number
RECURSIVE FormatDigits(_)
FormatDigits(n) ==
    IF n < 10 THEN Digits[n + 1]
    ELSE FormatDigits(n \div 10) \o Digits[(n % 10) + 1]

\* a value Python makes that this model has no way to write: a number past
\* 2^31 - 1, a float that is not the one nearest to a whole number of
\* hundredths, inf, nan, the text of a list or a dict, the Moscow offset of a
\* date before 1993
Beyond == [t |-> "beyond"]

\* The conversions read a str by the code points of its characters.  A str
\* of the model is a string, or, for the characters a string of the model
\* cannot hold, the sequence of its code points.

\* the decimal digits past U+007F that a string holds: the ten digits of a
\* script, and the code point of its zero
WideDigits ==
    {
      <<"۰۱۲۳۴۵۶۷۸۹", 1776>>, <<"߀߁߂߃߄߅߆߇߈߉", 1984>>,
      <<"০১২৩৪৫৬৭৮৯", 2534>>, <<"૦૧૨૩૪૫૬૭૮૯", 2790>>,
      <<"௦௧௨௩௪௫௬௭௮௯", 3046>>, <<"೦೧೨೩೪೫೬೭೮೯", 3302>>,
      <<"෦෧෨෩෪෫෬෭෮෯", 3558>>, <<"໐໑໒໓໔໕໖໗໘໙", 3792>>,
      <<"႐႑႒႓႔႕႖႗႘႙", 4240>>, <<"០១២៣៤៥៦៧៨៩", 6112>>,
      <<"᧐᧑᧒᧓᧔᧕᧖᧗᧘᧙", 6608>>, <<"᪀᪁᪂᪃᪄᪅᪆᪇᪈᪉", 6784>>,
      <<"᪐᪑᪒᪓᪔᪕᪖᪗᪘᪙", 6800>>, <<"᮰᮱᮲᮳᮴᮵᮶᮷᮸᮹", 7088>>,
      <<"꣐꣑꣒꣓꣔꣕꣖꣗꣘꣙", 43216>>, <<"꧐꧑꧒꧓꧔꧕꧖꧗꧘꧙", 43472>>,
      <<"꧰꧱꧲꧳꧴꧵꧶꧷꧸꧹", 43504>>, <<"꯰꯱꯲꯳꯴꯵꯶꯷꯸꯹", 44016>>}

\* the characters of a string that the conversions tell apart, each with its
\* code point: U+0020 to U+005F, U+0061 to U+007E, the control characters
\* and the spaces past U+007F that a string holds, the digits past U+007F
Known ==
    LET printable == " !\"#$%&'()*+,-./0123456789:;<=>?@ABCDEFGHIJKLMNOPQRSTUVWXYZ[\\]^_"
        small == "abcdefghijklmnopqrstuvwxyz{|}~"
    IN  {<<SubSeq(printable, i, i), 31 + i>> : i \in 1..Len(printable)}
        \cup {<<SubSeq(small, i, i), 96 + i>> : i \in 1..Len(small)}
        \cup {<<"\t", 9>>, <<"\n", 10>>, <<"", 11>>, <<"\f", 12>>, <<"\r", 13>>,
             <<"", 28>>, <<"", 29>>, <<"", 30>>, <<"", 31>>,
             <<"", 133>>, <<" ", 160>>, <<" ", 5760>>}
        \cup {<<SubSeq(row[1], i, i), row[2] + i - 1>> :
                row \in WideDigits, i \in 1..10}

\* the code point of each of these characters
Codes == [c \in {p[1] : p \in Known} |-> (CHOOSE p \in Known : p[1] = c)[2]]

\* ord(c); U+FFFD stands for every other character: it is no digit, no
\* space and no mark of a numeral or a date
CodeOf(c) == IF c \in DOMAIN Codes THEN Codes[c] ELSE 65533

\* the code points of a string
CodePoints(s) == [i \in 1..Len(s) |-> CodeOf(SubSeq(s, i, i))]

\* a str given by its code points
StrOf(codes) == [t |-> "str", codes |-> codes]

\* the code points of a str
Text(v) == IF "codes" \in DOMAIN v THEN v.codes ELSE CodePoints(v.v)

\* Py_ISSPACE: the characters int() and float() skip at both ends
Whitespace == {9, 10, 11, 12, 13, 32}

\* Py_UNICODE_ISSPACE, str.isspace(), \s of a pattern
UnicodeSpace ==
    Whitespace \cup {28, 29, 30, 31, 133, 160, 5760} \cup (8192..8202)
        \cup {8232, 8233, 8239, 8287, 12288}

\* the code points of the digit zero of every script (Unicode category Nd);
\* the nine that follow each are its digits one to nine
Zeros ==
    {
     48, 1632, 1776, 1984, 2406, 2534, 2662, 2790, 2918, 3046, 3174, 3302,
     3430, 3558, 3664, 3792, 3872, 4160, 4240, 6112, 6160, 6470, 6608,
     6784, 6800, 6992, 7088, 7232, 7248, 42528, 43216, 43264, 43472, 43504,
     43600, 44016, 65296, 66720, 68912, 69734, 69872, 69942, 70096, 70384,
     70736, 70864, 71248, 71360, 71472, 71904, 72016, 72784, 73040, 73120,
     92768, 92864, 93008, 120782, 120792, 120802, 120812, 120822, 123200,
     123632, 125264, 130032}

\* Py_UNICODE_ISDECIMAL, \d of a pattern
IsDecimal(c) == \E z \in Zeros : c - z \in 0..9

\* _PyUnicode_TransformDecimalAndSpaceToASCII, one character: past U+007F a
\* space becomes a blank, a decimal digit its ASCII digit
\* (Py_UNICODE_TODECIMAL), any other a "?"
ToASCII(c) ==
    IF c < 128 THEN c
    ELSE IF c \in UnicodeSpace THEN 32
    ELSE IF IsDecimal(c) THEN 48 + c - (CHOOSE z \in Zeros : c - z \in 0..9)
    ELSE 63

\* _PyUnicode_TransformDecimalAndSpaceToASCII
Transform(s) == [i \in DOMAIN s |-> ToASCII(s[i])]

IsDigit(c) == c \in 48..57

\* the number a string of decimal digits writes
RECURSIVE ParseDigits(_)
ParseDigits(s) ==
    IF Len(s) = 0 THEN 0
    ELSE 10 * ParseDigits(SubSeq(s, 1, Len(s) - 1)) + (s[Len(s)] - 48)

\* s without the white space at its ends: from its first to its last
\* character that is not white space
Strip(s) ==
    IF \A i \in 1..Len(s) : s[i] \in Whitespace THEN <<>>
    ELSE SubSeq(s,
                CHOOSE i \in 1..Len(s) :
                    s[i] \notin Whitespace
                        /\ \A j \in 1..(i - 1) : s[j] \in Whitespace,
                CHOOSE i \in 1..Len(s) :
                    s[i] \notin Whitespace
                        /\ \A j \in (i + 1)..Len(s) : s[j] \in Whitespace)

\* the sign a numeral starts with ("-" is U+002D), and the numeral without it
SignOf(s) == IF Len(s) > 0 /\ s[1] = 45 THEN -1 ELSE 1

Unsigned(s) == IF Len(s) > 0 /\ s[1] \in {43, 45} THEN Tail(s) ELSE s

\* is s decimal digits, with single underscores (U+005F) allowed between two
\* digits
Grouped(s) ==
    /\ Len(s) > 0
    /\ \A i \in 1..Len(s) :
            \/ IsDigit(s[i])
            \/ /\ s[i] = 95
               /\ 1 < i /\ i < Len(s)
               /\ IsDigit(s[i - 1])
               /\ IsDigit(s[i + 1])

\* s without its underscores
DigitsOf(s) == SelectSeq(s, IsDigit)

\* where the first character of s that is in cs is, 0 when it has none
FirstOf(s, cs) ==
    IF \E i \in 1..Len(s) : s[i] \in cs
    THEN CHOOSE i \in 1..Len(s) :
            /\ s[i] \in cs
            /\ \A j \in 1..(i - 1) : s[j] \notin cs
    ELSE 0

\* s without the zeros at its start
NoZerosBefore(s) ==
    IF \A i \in 1..Len(s) : s[i] = 48 THEN <<>>
    ELSE SubSeq(s,
                CHOOSE i \in 1..Len(s) :
                    s[i] # 48 /\ \A j \in 1..(i - 1) : s[j] = 48,
                Len(s))

\* s without the zeros at its end
NoZerosAfter(s) ==
    IF \A i \in 1..Len(s) : s[i] = 48 THEN <<>>
    ELSE SubSeq(s, 1,
                CHOOSE i \in 1..Len(s) :
                    s[i] # 48 /\ \A j \in (i + 1)..Len(s) : s[j] = 48)

\* of two numbers written in digits, without zeros at their start, is a the
\* smaller
Below(a, b) ==
    \/ Len(a) < Len(b)
    \/ /\ Len(a) = Len(b)
       /\ \E k \in 1..Len(a) : a[k] < b[k] /\ \A j \in 1..(k - 1) : a[j] = b[j]

\* can the model count with the number the digits ds write: is it at most
\* 2^31 - 1
Fits(ds) == ~Below(<<50, 49, 52, 55, 52, 56, 51, 54, 52, 55>>, ds)

\* as many zeros
Zeros0(n) == [i \in 1..n |-> 48]

\* are the digits ds, read as 0.ds, those of 2^-1075 or below them.  2^-1075
\* is half the smallest float above zero, and 0.247...125 * 10^-323 with the
\* 752 digits of 5^1075: a numeral that is not above it is rounded to 0.0.
Under(ds) ==
    LET half == CodePoints(
            "247032822920623272088284396434110686182529901307162382212792" \o
            "841250337753635104375932649918180817996189898282347722858865" \o
            "463328355177969898199387398005390939063150356595155702263922" \o
            "908583924491051844359318028499365361525003193704576782492193" \o
            "656236698636584807570015857692699037063119282795585513329278" \o
            "343384093519780155312465972635795746227664652728272200563740" \o
            "064854999770965994704540208281662262378573934507363390079677" \o
            "619305775067401763246736009689513405355374585166611342237666" \o
            "786041621596804619144672918403005300575308490487653917113865" \o
            "916462395249126236538818796362393732804238910186723484976682" \o
            "350898633885879256283027559956575244555072551893136908362547" \o
            "791869486679949683240497058210285131854513962138377228261454" \o
            "37693412532098591327667236328125")
    IN  IF Len(ds) <= 752 THEN ~Below(half, ds \o Zeros0(752 - Len(ds)))
        ELSE ~Below(half \o Zeros0(Len(ds) - 752), ds)

\* twice the number the digits x write: a digit carries one to the digit
\* before it when it is 5 or more
Double(x) ==
    (IF x[1] >= 53 THEN <<49>> ELSE <<>>)
        \o [i \in 1..Len(x) |->
                48 + ((2 * (x[i] - 48)
                       + (IF i < Len(x) /\ x[i + 1] >= 53 THEN 1 ELSE 0)) % 10)]

\* the number the digits x write and one more (by = 1), or one less (by = -1,
\* of a number that does not lose a digit by it): a digit changes when those
\* after it all carry
Step(x, by) ==
    (IF by = 1 /\ \A k \in 1..Len(x) : x[k] = 57 THEN <<49>> ELSE <<>>)
        \o [i \in 1..Len(x) |->
                IF \E k \in (i + 1)..Len(x) : x[k] # (IF by = 1 THEN 57 ELSE 48)
                THEN x[i]
                ELSE 48 + ((x[i] - 48 + by) % 10)]

\* the pair of h and n, each doubled until h is 100 * 2^52 or more: h * 2^k
\* and n * 2^k for the k that puts h * 2^k / 100 from 2^52 up to 2^53, where
\* the 53 bits of a float are
RECURSIVE Aligned(_)
Aligned(pair) ==
    IF Below(pair[1], <<52, 53, 48, 51, 53, 57, 57, 54, 50, 55, 51, 55, 48, 52,
                        57, 54, 48, 48>>)
    THEN Aligned(<<Double(pair[1]), Double(pair[2])>>)
    ELSE pair

\* a / 100 rounded to a whole number, a half to the even one: the 53 bits of
\* the float nearest to h / 100, for a = h * 2^k
Mantissa(a) ==
    IF \/ Below(<<53, 48>>, SubSeq(a, Len(a) - 1, Len(a)))
       \/ /\ SubSeq(a, Len(a) - 1, Len(a)) = <<53, 48>>
          /\ a[Len(a) - 2] % 2 = 1
    THEN Step(SubSeq(a, 1, Len(a) - 2), 1)
    ELSE SubSeq(a, 1, Len(a) - 2)

\* is n from lo to hi: with them when closed, between them when not
Within(n, lo, hi, closed) ==
    IF closed THEN ~Below(n, lo) /\ ~Below(hi, n)
    ELSE Below(lo, n) /\ Below(n, hi)

\* the float of the numeral ds / 10^p, of more than two decimal places, for
\* the number hd of hundredths next to it: that number, when the float
\* nearest to the numeral is the float nearest to hd / 100.  With bits the
\* bits of that float, it is the nearest float to what lies from bits - 1/2
\* to bits + 1/2, the two ends included when bits is even.  Under 2^52 the
\* floats are twice as close: the numerals that go to it start at 2^52 - 1/4.
Nearest(ds, p, hd) ==
    IF hd = <<>> \/ ~Fits(hd) THEN Return(Beyond)
    ELSE IF \E pair \in {Aligned(<<hd, ds>>)} : \E bits \in {Mantissa(pair[1])} :
                Within(pair[2],
                       Step(bits, -1)
                           \o (IF bits = <<52, 53, 48, 51, 53, 57, 57, 54, 50,
                                           55, 51, 55, 48, 52, 57, 54>>
                               THEN <<55, 53>> ELSE <<53, 48>>)
                           \o Zeros0(p - 2),
                       bits \o <<53, 48>> \o Zeros0(p - 2),
                       bits[Len(bits)] % 2 = 0)
    THEN Return(FloatV(ParseDigits(hd)))
    ELSE Return(Beyond)

\* the float 0.ds * 10^m, in hundredths, for digits ds that neither start nor
\* end with a zero.  It is 0.0 when the numeral is not above half the
\* smallest float.  A numeral of no more than two decimal places is its own
\* number of hundredths; one of more places is rounded to the nearest float,
\* which may be that of the number of hundredths next to it.
Scaled(ds, m) ==
    IF m < -323 \/ (m = -323 /\ Under(ds)) THEN Return(FloatV(0))
    ELSE IF m + 2 < 0 \/ m + 2 > 10 THEN Return(Beyond)
    ELSE IF Len(ds) <= m + 2
    THEN (IF Fits(ds \o Zeros0(m + 2 - Len(ds)))
          THEN Return(FloatV(ParseDigits(ds \o Zeros0(m + 2 - Len(ds)))))
          ELSE Return(Beyond))
    ELSE Nearest(ds, Len(ds) - m,
                 IF ds[m + 3] >= 53 THEN Step(SubSeq(ds, 1, m + 2), 1)
                 ELSE SubSeq(ds, 1, m + 2))

\* the float of the digits all (no zero at their start), of which fracs
\* stand after the point, with the exponent of sign sign and digits es (no
\* zero at their start)
Rounded(all, fracs, sign, es) ==
    IF all = <<>> THEN Return(FloatV(0))
    ELSE IF ~Fits(es)
    THEN (IF sign < 0 THEN Return(FloatV(0)) ELSE Return(Beyond))
    ELSE Scaled(NoZerosAfter(all), Len(all) - fracs + sign * ParseDigits(es))

\* the float written with the digits whole before the point, the digits frac
\* after it and the exponent given
Decimal(whole, frac, exponent) ==
    IF /\ whole = <<>> \/ Grouped(whole)
       /\ frac = <<>> \/ Grouped(frac)
       /\ ~(whole = <<>> /\ frac = <<>>)
       /\ Grouped(Unsigned(exponent))
    THEN Rounded(NoZerosBefore(DigitsOf(whole \o frac)), Len(DigitsOf(frac)),
                 SignOf(exponent), NoZerosBefore(DigitsOf(Unsigned(exponent))))
    ELSE Raise("ValueError")

\* the float whose mantissa has its point at p (0: no point)
Pointed(mantissa, p, exponent) ==
    IF p = 0 THEN Decimal(mantissa, <<>>, exponent)
    ELSE Decimal(SubSeq(mantissa, 1, p - 1),
                 SubSeq(mantissa, p + 1, Len(mantissa)), exponent)

\* the float whose numeral s has its exponent mark at e (0: no exponent);
\* the point of the mantissa is its first U+002E
Exponented(s, e) ==
    IF e = 0 THEN Pointed(s, FirstOf(s, {46}), <<48>>)
    ELSE Pointed(SubSeq(s, 1, e - 1), FirstOf(SubSeq(s, 1, e - 1), {46}),
                 SubSeq(s, e + 1, Len(s)))

\* float(s) for the unsigned numeral s, as a float in hundredths: digits with
\* an optional point and an optional exponent (e, E), or inf, infinity, nan
\* in capital or small letters
ParseHundredths(s) ==
    IF [i \in DOMAIN s |-> IF s[i] \in 65..90 THEN s[i] + 32 ELSE s[i]]
            \in {CodePoints("inf"), CodePoints("infinity"), CodePoints("nan")}
    THEN Return(Beyond)
    ELSE Exponented(s, FirstOf(s, {101, 69}))

\* int(s) for a string without white space around it.  A numeral of more
\* digits than sys.get_int_max_str_digits(), 4300 unless the interpreter is
\* told otherwise, is refused.
IntOfStr(s) ==
    IF ~Grouped(Unsigned(s)) THEN Raise("ValueError")
    ELSE IF Len(DigitsOf(Unsigned(s))) > 4300 THEN Raise("ValueError")
    ELSE IF ~Fits(NoZerosBefore(DigitsOf(Unsigned(s)))) THEN Return(Beyond)
    ELSE Return(SignOf(s) * ParseDigits(NoZerosBefore(DigitsOf(Unsigned(s)))))

\* int(v): a bool is 0 or 1; a float is cut toward zero; a str is read after
\* the transformation, as a signed decimal numeral with white space around
\* it, anything else in it a ValueError
PyInt(v) ==
    CASE v.t = "int" -> Return(v.v)
      [] v.t = "bool" -> Return(IF v.v THEN 1 ELSE 0)
      [] v.t = "float" ->
            Return(IF v.v >= 0 THEN v.v \div 100 ELSE -((-v.v) \div 100))
      [] v.t = "str" -> IntOfStr(Strip(Transform(Text(v))))
      [] OTHER -> Raise("TypeError")

\* the float parsed, with the sign of the numeral s
Signed(s, parsed) ==
    IF parsed.raised # "" \/ parsed.value.t # "float" THEN parsed
    ELSE Return(SignOf(s) * parsed.value.v)

\* float(s) for a string without white space around it
FloatOfStr(s) == Signed(s, ParseHundredths(Unsigned(s)))

\* float(v), in hundredths
PyFloat(v) ==
    CASE v.t = "float" -> Return(v.v)
      [] v.t = "int" ->
            IF v.v > 21474836 \/ v.v < -21474836 THEN Return(Beyond)
            ELSE Return(100 * v.v)
      [] v.t = "bool" -> Return(IF v.v THEN 100 ELSE 0)
      [] v.t = "str" -> FloatOfStr(Strip(Transform(Text(v))))
      [] OTHER -> Raise("TypeError")

\* str(x) for a float of h hundredths: at least one decimal place
FormatFloat(h) ==
    LET a == IF h < 0 THEN -h ELSE h
        cents == a % 100
    IN  (IF h < 0 THEN "-" ELSE "") \o FormatDigits(a \div 100) \o "."
            \o Digits[(cents \div 10) + 1]
            \o (IF cents % 10 = 0 THEN "" ELSE Digits[(cents % 10) + 1])

\* str(v): a str is itself
PyStr(v) ==
    CASE v.t = "str" -> IF "codes" \in DOMAIN v THEN v.codes ELSE v.v
      [] v.t = "None" -> "None"
      [] v.t = "bool" -> IF v.v THEN "True" ELSE "False"
      [] v.t = "int" ->
            IF v.v < 0 THEN "-" \o FormatDigits(-v.v) ELSE FormatDigits(v.v)
      [] v.t = "float" -> FormatFloat(v.v)
      [] OTHER -> Beyond

----------------------------------------------------------------------------
(* smsc/exceptions.py *)

\* the exception classes of the library: SMSCException and its subclasses
SMSCExceptions ==
    {"SMSCException", "SendError", "GetCostError", "GetStatusError",
     "GetBalanceError"}

----------------------------------------------------------------------------
(* smsc/responses.py *)

\* a slip: the error is made without its text
SMSCErrorNoText(code, error) == [t |-> "SMSCError", code |-> code, error |-> None]

SMSCError(code, error) == [t |-> "SMSCError", code |-> code, error |-> error]

\* Response.__init__
ResponseInit(obj) ==
    LET code == PyInt(DictGet(obj, "error_code", IntV(0))) IN
    Then(code, Return([error |-> DictGet(obj, "error", None),
                       code |-> code.value]))

\* a slip: the error is compared with None, so an empty text counts
NoErrorIsNone(error, code) == error = None /\ code = 0

\* a slip: the error text is not looked at
NoErrorCodeOnly(error, code) == code = 0

\* the test of Response.error: is there no error to report
NoError(error, code) == ~Truthy(error) /\ code = 0

\* Response.error
ErrorOf(r) ==
    IF NoError(r.error, r.code) THEN None ELSE SMSCError(r.code, r.error)

\* a slip: a response without a count is taken to be of one message
SendResponseCountOne(obj) ==
    LET base == ResponseInit(obj)
        cnt == PyInt(DictGet(obj, "cnt", IntV(1)))
        cost == PyFloat(DictGet(obj, "cost", FloatV(0)))
    IN  Then(base, Then(cnt, Then(cost,
            Return([cls |-> "SendResponse"] @@ base.value @@
                   [id |-> DictGet(obj, "id", None), cnt |-> cnt.value,
                    cost |-> cost.value]))))

\* SendResponse.__init__
SendResponse(obj) ==
    LET base == ResponseInit(obj)
        cnt == PyInt(DictGet(obj, "cnt", IntV(0)))
        cost == PyFloat(DictGet(obj, "cost", FloatV(0)))
    IN  Then(base, Then(cnt, Then(cost,
            Return([cls |-> "SendResponse"] @@ base.value @@
                   [id |-> DictGet(obj, "id", None), cnt |-> cnt.value,
                    cost |-> cost.value]))))

\* CostResponse.__init__
CostResponse(obj) ==
    LET base == ResponseInit(obj)
        cnt == PyInt(DictGet(obj, "cnt", IntV(0)))
        cost == PyFloat(DictGet(obj, "cost", FloatV(0)))
    IN  Then(base, Then(cnt, Then(cost,
            Return([cls |-> "CostResponse"] @@ base.value @@
                   [cnt |-> cnt.value,
                    cost |-> cost.value]))))

\* BalanceResponse.__init__
BalanceResponse(obj) ==
    LET base == ResponseInit(obj)
        balance == PyFloat(DictGet(obj, "balance", FloatV(0)))
        credit == PyFloat(DictGet(obj, "credit", FloatV(0)))
    IN  Then(base, Then(balance, Then(credit,
            Return([cls |-> "BalanceResponse"] @@ base.value @@
                   [balance |-> balance.value, credit |-> credit.value,
                    currency |-> PyStr(DictGet(obj, "currency", StrV("")))]))))

\* for name in names: del obj[name].  The deletions made before a missing
\* key stops the loop stay made.
RECURSIVE DelAll(_, _)
DelAll(obj, names) ==
    IF names = <<>> THEN [raised |-> "", obj |-> obj]
    ELSE IF Head(names) \notin DOMAIN obj
    THEN [raised |-> "KeyError", obj |-> obj]
    ELSE DelAll(DictDel(obj, Head(names)), Tail(names))

\* the keys Status.__init__ deletes from the object it is given
StatusKeys == <<"status", "status_name">>

\* a slip: one of the two timestamps is left in the data
TimestampKeysShort == <<"send_timestamp">>

\* the keys StatusResponse.__init__ deletes from its data
TimestampKeys == <<"send_timestamp", "last_timestamp">>

\* Status.__init__ once the status is read as id: the name is read and the
\* two keys are deleted
StatusOf(obj, id, deleted) ==
    IF id.raised # "" THEN [raised |-> id.raised, value |-> None, obj |-> obj]
    ELSE [raised |-> deleted.raised,
          value |-> IF deleted.raised # "" THEN None
                    ELSE [id |-> id.value,
                          name |-> PyStr(DictGet(obj, "status_name", StrV("")))],
          obj |-> deleted.obj]

\* Status.__init__: the Status made, and the object as the deletions leave it
Status(obj) ==
    StatusOf(obj, PyInt(DictGet(obj, "status", IntV(0))), DelAll(obj, StatusKeys))

\* arrow reads a date as the version installed does; requirements.txt, which
\* names the version, is not with the source.  "search": the pattern is
\* looked for anywhere in the string.  "bounded": it is looked for between
\* white space or punctuation.  "midnight": bounded, and the hour 24:00:00
\* is the start of the next day.
Arrows == {"search", "bounded", "midnight"}

\* does the pattern that the format DD.MM.YYYY HH:mm:ss makes,
\* \d{2}\.\d{2}\.\d{4}\ \d{2}:\d{2}:\d{2}, match s from its character i on
DateAt(s, i) ==
    /\ i + 18 <= Len(s)
    /\ s[i + 2] = 46 /\ s[i + 5] = 46 /\ s[i + 10] = 32
    /\ s[i + 13] = 58 /\ s[i + 16] = 58
    /\ \A k \in (0..18) \ {2, 5, 10, 13, 16} : IsDecimal(s[i + k])

\* the marks , . ; : ? ! " ' ` [ ] { } ( ) < > that may stand next to a date
Punctuation ==
    {44, 46, 59, 58, 63, 33, 34, 39, 96, 91, 93, 123, 125, 40, 41, 60, 62}

\* is the date at i bounded: before it the start, a space, or one mark after
\* the start or a space; after it the end, a space, or one mark before the
\* end or a space
Bounded(s, i) ==
    /\ i = 1 \/ s[i - 1] \in Punctuation \cup UnicodeSpace
    /\ i <= 2 \/ s[i - 1] \in UnicodeSpace \/ s[i - 2] \in UnicodeSpace
    /\ \/ i + 19 > Len(s)
       \/ s[i + 19] \in UnicodeSpace
       \/ /\ s[i + 19] \in Punctuation
          /\ i + 20 > Len(s) \/ s[i + 20] \in UnicodeSpace

\* where in s the reader finds a date
DatesIn(s, arrow) ==
    {i \in 1..Len(s) : DateAt(s, i) /\ (arrow = "search" \/ Bounded(s, i))}

\* int(value) for the digits of a field of the date
Field(s, from, to) == ParseDigits(Transform(SubSeq(s, from, to)))

\* is year a leap year
IsLeap(year) == year % 4 = 0 /\ (year % 100 # 0 \/ year % 400 = 0)

\* the days month has in year
DaysIn(year, month) ==
    IF month = 2 THEN (IF IsLeap(year) THEN 29 ELSE 28)
    ELSE IF month \in {4, 6, 9, 11} THEN 30
    ELSE 31

\* the day of the week of a date, 0 for Sunday
DayOfWeek(year, month, day) ==
    LET shift == <<0, 3, 2, 5, 0, 3, 5, 1, 4, 6, 2, 4>>
        y == IF month < 3 THEN year - 1 ELSE year
    IN  (y + (y \div 4) - (y \div 100) + (y \div 400) + shift[month] + day) % 7

\* the day of the last Sunday of month in year
LastSunday(year, month) ==
    DaysIn(year, month) - DayOfWeek(year, month, DaysIn(year, month))

\* an hour of the year as one number, to compare hours of one year
HourOfYear(month, day, hour) == (month * 100 + day) * 100 + hour

\* the minutes tz.gettz("Europe/Moscow") puts the wall time at ahead of UTC.
\* From 26.10.2014 02:00 three hours; from 27.03.2011 03:00 until then four;
\* before that, from 1993, three, and four in summer time, which ran from
\* 02:00 on the last Sunday of March to 03:00 on the last Sunday of October
\* (of September until 1995).  An hour the clocks repeated has the offset of
\* its first passing.
MoscowOffset(year, month, day, hour) ==
    LET at == HourOfYear(month, day, hour)
        autumn == IF year <= 1995 THEN 9 ELSE 10
    IN  IF year < 1993 THEN Beyond
        ELSE IF year > 2014 \/ (year = 2014 /\ at >= HourOfYear(10, 26, 2))
        THEN 180
        ELSE IF year > 2011 \/ (year = 2011 /\ at >= HourOfYear(3, 27, 3))
        THEN 240
        ELSE IF /\ year < 2011
                /\ at >= HourOfYear(3, LastSunday(year, 3), 2)
                /\ at < HourOfYear(autumn, LastSunday(year, autumn), 3)
        THEN 240
        ELSE 180

\* datetime(year, month, day, hour, minute, second, tzinfo=Europe/Moscow):
\* the fields are those of a date and a time of day, or it is a ValueError
DateTime(year, month, day, hour, minute, second) ==
    IF \/ year < 1
       \/ month < 1 \/ month > 12
       \/ day < 1 \/ day > DaysIn(year, month)
       \/ hour > 23 \/ minute > 59 \/ second > 59
    THEN Raise("ValueError")
    ELSE Return([t |-> "datetime", year |-> year, month |-> month,
                 day |-> day, hour |-> hour, minute |-> minute,
                 second |-> second,
                 utcoffset |-> MoscowOffset(year, month, day, hour)])

\* midnight + timedelta(days=1): the start of the day after year, month, day
NextDay(year, month, day) ==
    IF day < DaysIn(year, month) THEN DateTime(year, month, day + 1, 0, 0, 0)
    ELSE IF month < 12 THEN DateTime(year, month + 1, 1, 0, 0, 0)
    ELSE IF year < 9999 THEN DateTime(year + 1, 1, 1, 0, 0, 0)
    ELSE Raise("OverflowError")

\* the datetime the reader builds from the six fields
BuildDateTime(arrow, year, month, day, hour, minute, second) ==
    IF arrow = "midnight" /\ hour = 24
    THEN IF minute # 0 \/ second # 0 THEN Raise("ParserError")
         ELSE Then(DateTime(year, month, day, 0, 0, 0),
                   NextDay(year, month, day))
    ELSE DateTime(year, month, day, hour, minute, second)

\* the date read from the character i of s on
DateFrom(s, i, arrow) ==
    CHOOSE made \in
        {BuildDateTime(arrow, year, month, day, hour, minute, second) :
            day \in {Field(s, i, i + 1)},
            month \in {Field(s, i + 3, i + 4)},
            year \in {Field(s, i + 6, i + 9)},
            hour \in {Field(s, i + 11, i + 12)},
            minute \in {Field(s, i + 14, i + 15)},
            second \in {Field(s, i + 17, i + 18)}} : TRUE

\* the date found at the places at, the first of them, if there is one
DateFound(s, at, arrow) ==
    IF at = {}
    THEN Raise(IF arrow = "search" THEN "ParserError" ELSE "ParserMatchError")
    ELSE DateFrom(s, CHOOSE i \in at : \A j \in at : i <= j, arrow)

\* arrow_get(s, "DD.MM.YYYY HH:mm:ss", tzinfo=tz.gettz("Europe/Moscow")).datetime
\* for the code points s of a str: the date is looked for, its six fields
\* are read, then the datetime is made
ParseDate(s, arrow) == DateFound(s, DatesIn(s, arrow), arrow)

\* StatusResponse.__init__, one date of its data: parsed unless it is None
ParseDateField(data, name, arrow) ==
    IF name \notin DOMAIN data THEN Raise("KeyError")
    ELSE IF data[name] = None THEN Return(data)
    ELSE IF data[name].t # "str" THEN Raise("TypeError")
    ELSE LET parsed == ParseDate(Text(data[name]), arrow) IN
         Then(parsed, Return([data EXCEPT ![name] = parsed.value]))

\* the data once the keys named are deleted from it
Without(deleted) ==
    IF deleted.raised # "" THEN Raise(deleted.raised) ELSE Return(deleted.obj)

\* the data from its second date on, the first being parsed
DataAfter(first, arrow) ==
    LET second == ParseDateField(first.value, "send_date", arrow) IN
    Then(first, Then(second, Without(DelAll(second.value, TimestampKeys))))

\* StatusResponse.__init__, its data: a copy of the object Status leaves, the
\* two dates parsed, the two timestamps deleted
StatusData(obj, arrow) ==
    DataAfter(ParseDateField(obj, "last_date", arrow), arrow)

\* StatusResponse.__init__ over the Response part base and the Status part
\* status of the object
StatusResponseOf(obj, base, status, arrow) ==
    LET data == StatusData(status.obj, arrow) IN
    Then(base, Then(status, Then(data,
        Return([cls |-> "StatusResponse"] @@ base.value @@
               [status |-> status.value, data |-> data.value]))))
      @@ [obj |-> IF base.raised # "" THEN obj ELSE status.obj]

\* a slip: the data is the caller's object itself, not a copy of it
StatusResponseAliased(obj, arrow) ==
    LET made == StatusResponseOf(obj, ResponseInit(obj), Status(obj), arrow) IN
    [made EXCEPT !.obj = IF made.raised = "" THEN made.value.data ELSE @]

\* StatusResponse.__init__: the response made, and the caller's object as
\* the constructor leaves it
StatusResponse(obj, arrow) ==
    StatusResponseOf(obj, ResponseInit(obj), Status(obj), arrow)

----------------------------------------------------------------------------
(* smsc/api.py *)

\* the characters of a string, as Python iterates over it
Chars(s) == [i \in 1..Len(s) |-> SubSeq(s, i, i)]

\* sep.join(items) for a sequence of strings
RECURSIVE JoinSeq(_, _)
JoinSeq(sep, items) ==
    IF items = <<>> THEN ""
    ELSE IF Len(items) = 1 THEN items[1]
    ELSE items[1] \o sep \o JoinSeq(sep, Tail(items))

\* sep.join(x) for a list of strings or for a string
PyJoin(sep, x) ==
    IF x.t = "str" THEN JoinSeq(sep, Chars(x.v)) ELSE JoinSeq(sep, x.v)

\* furl.add(params): the parameters go after those already there
Add(query, params) == query \o params

\* SMSC.__init__
SMSCInit(login, password, sender) ==
    [login |-> login,
     password |-> password,
     sender |-> IF sender # None THEN sender.v ELSE "SMSC.ru"]

\* a slip: the login is sent as the password
AuthLoginAsPassword(c) ==
    <<<<"login", StrV(c.login)>>, <<"psw", StrV(c.login)>>, <<"fmt", IntV(3)>>>>

\* SMSC.__auth
Auth(c) ==
    <<<<"login", StrV(c.login)>>, <<"psw", StrV(c.password)>>, <<"fmt", IntV(3)>>>>

\* the phones of send and get_cost:
\* isinstance(to, str) and to or ",".join(to)
SendPhones(to) ==
    IF to.t = "str" /\ Truthy(to) THEN to.v ELSE PyJoin(",", to)

\* a slip: the empty trailing element is left out
JoinSingleBare(x) == JoinSeq(",", <<x>>)

\* a single value of get_status: ",".join([x, ""])
JoinSingle(x) == JoinSeq(",", <<x, "">>)

\* the phone and the id of get_status:
\* isinstance(x, str) and ",".join([x, ""]) or ",".join(x)
StatusList(x) ==
    IF x.t = "str" /\ Truthy(StrV(JoinSingle(x.v)))
    THEN JoinSingle(x.v)
    ELSE PyJoin(",", x)

\* the request send builds
SendRequest(c, to, message) ==
    LET f0 == Add(Auth(c), <<<<"sender", StrV(c.sender)>>>>)
        f1 == Add(f0, <<<<"cost", IntV(2)>>, <<"phones", StrV(SendPhones(to))>>>>)
    IN  [path |-> "send.php", query |-> Add(f1, Encode(message))]

\* a slip: the cost request leaves the sender out
GetCostRequestNoSender(c, to, message) ==
    LET f1 == Add(Auth(c), <<<<"cost", IntV(1)>>, <<"phones", StrV(SendPhones(to))>>>>)
    IN  [path |-> "send.php", query |-> Add(f1, Encode(message))]

\* the request get_cost builds
GetCostRequest(c, to, message) ==
    LET f0 == Add(Auth(c), <<<<"sender", StrV(c.sender)>>>>)
        f1 == Add(f0, <<<<"cost", IntV(1)>>, <<"phones", StrV(SendPhones(to))>>>>)
    IN  [path |-> "send.php", query |-> Add(f1, Encode(message))]

\* the request get_status builds
GetStatusRequest(c, to, msg_id) ==
    LET f0 == Add(Auth(c), <<<<"charset", StrV("utf-8")>>, <<"all", IntV(2)>>>>)
        f1 == Add(f0, <<<<"phone", StrV(StatusList(to))>>>>)
    IN  [path |-> "status.php",
         query |-> Add(f1, <<<<"id", StrV(StatusList(msg_id))>>>>)]

\* the request get_balance builds
GetBalanceRequest(c) ==
    [path |-> "balance.php", query |-> Add(Auth(c), <<<<"cur", IntV(1)>>>>)]

\* a slip: every 2xx status passes, as in "if not r.ok:"
FailedNot2xx(status_code) == status_code \notin 200..299

\* the test every call makes of the reply: r.status_code != 200
Failed(status_code) == status_code # 200

\* what a call that failed on the reply's status gives
Fail(class) == [raised |-> class, value |-> None, decoded |-> FALSE]

\* r.json() followed by the class that wraps the decoded object, made being
\* what the class makes of it
Wrap(body, made) ==
    IF body.t = "invalid"
    THEN [raised |-> "ValueError", value |-> None, decoded |-> TRUE]
    ELSE IF body.t # "dict"
    THEN [raised |-> "AttributeError", value |-> None, decoded |-> TRUE]
    ELSE made @@ [decoded |-> TRUE]

\* send, from the reply on
SendReply(r) ==
    IF Failed(r.status_code) THEN Fail("SendError")
    ELSE Wrap(r.body, SendResponse(r.body.v))

\* get_cost, from the reply on
GetCostReply(r) ==
    IF Failed(r.status_code) THEN Fail("GetCostError")
    ELSE Wrap(r.body, CostResponse(r.body.v))

\* get_balance, from the reply on
GetBalanceReply(r) ==
    IF Failed(r.status_code) THEN Fail("GetBalanceError")
    ELSE Wrap(r.body, BalanceResponse(r.body.v))

\* get_status, the loop over the decoded list: result.append(StatusResponse(obj))
RECURSIVE StatusLoop(_, _, _)
StatusLoop(res, result, arrow) ==
    IF res = <<>> THEN Return(result)
    ELSE LET made == StatusResponse(Head(res), arrow) IN
         Then(made, StatusLoop(Tail(res), Append(result, made.value), arrow))

\* a slip: only a dict that holds something is refused
IsDictNonEmpty(res) == res.t = "dict" /\ DOMAIN res.v # {}

\* the test get_status makes of the decoded body: isinstance(res, dict)
IsDict(res) == res.t = "dict"

\* get_status, from the reply on
GetStatusReply(r, arrow) ==
    IF Failed(r.status_code) THEN Fail("GetStatusError")
    ELSE IF r.body.t = "invalid"
    THEN [raised |-> "ValueError", value |-> None, decoded |-> TRUE]
    ELSE IF IsDict(r.body)
    THEN [raised |-> "GetStatusError", value |-> None, decoded |-> TRUE]
    ELSE StatusLoop(r.body.v, <<>>, arrow) @@ [decoded |-> TRUE]

----------------------------------------------------------------------------
(* The inputs the caller draws from *)

\* n copies of the letter a
RECURSIVE Rep(_)
Rep(n) ==
    IF n = 0 THEN ""
    ELSE IF n % 2 = 0 THEN LET h == Rep(n \div 2) IN h \o h
    ELSE Rep(n - 1) \o "a"

Texts ==
    {"", "test", Rep(MaxTextLen - 1), Rep(MaxTextLen)}
        \cup {Rep(MaxTextLen + k) : k \in 1..MaxOver}

MessageClasses == {"SMSMessage", "FlashMessage", "ViberMessage"}

\* the keyword arguments a message is constructed with
KwargsSet ==
    {EmptyObj,
     "translit" :> IntV(1),
     "translit" :> IntV(0),
     "translit" :> None,
     "tinyurl" :> IntV(1),
     ("maxsms" :> IntV(3)) @@ ("sender" :> StrV("me")),
     "msg_format" :> StrV("flash"),
     "msg_format" :> None,
     ("translit" :> IntV(1)) @@ ("text" :> StrV("test")),
     ("translit" :> IntV(1)) @@ ("tinyurl" :> IntV(1)) @@ ("maxsms" :> IntV(1))}

\* the messages the caller sends
ApiMessages ==
    {NewMessage(cls, "test", kwargs, debug).value :
        cls \in MessageClasses, debug \in BOOLEAN,
        kwargs \in {EmptyObj,
                    ("translit" :> IntV(1)) @@ ("tinyurl" :> IntV(1))
                        @@ ("maxsms" :> IntV(1))}}

\* the first n of the strings in all
Prefixes(all, n) ==
    {SubSeq(all, 1, k) : k \in 0..(IF n < Len(all) THEN n ELSE Len(all))}

\* the recipients of a call: one phone, or a list of phones
Recipients ==
    {StrV(""), StrV("79999999999")}
        \cup {ListV(l) : l \in Prefixes(<<"79999999999", "79262138080",
                                          "79000000001", "79000000002">>, MaxList)}

\* the message ids of a status call: one id, or a list of ids
MessageIds ==
    {StrV(""), StrV("1")}
        \cup {ListV(l) : l \in Prefixes(<<"1", "2", "3", "4">>, MaxList)}

\* the function obj restricted to the keys in ks
Restrict(obj, ks) == [k \in (DOMAIN obj) \cap ks |-> obj[k]]

\* the error fields of the gateway's own replies: a text, null or nothing,
\* with an integer code or none
ErrPlain ==
    {e @@ c :
        e \in {EmptyObj, "error" :> None, "error" :> StrV(""),
                 "error" :> StrV("can't to deliver")},
        c \in {EmptyObj, "error_code" :> IntV(0), "error_code" :> IntV(8)}}

\* the error fields a gateway object may carry.  An error that is a text,
\* null, or a value of another JSON type, with no code or an integer code;
\* a code that is an integer, a numeral (in ASCII digits or not, U+0668
\* being the digit eight) or a fraction, with no error, a text or null.
ErrParts ==
    {e @@ c :
        e \in {EmptyObj} \cup
                {"error" :> v :
                    v \in {None, StrV(""), StrV("can't to deliver"), IntV(0),
                           IntV(5), FloatV(0), BoolV(FALSE), BoolV(TRUE),
                           ListV(<<>>), ListV(<<"x">>), DictV(EmptyObj)}},
        c \in {EmptyObj, "error_code" :> IntV(0), "error_code" :> IntV(8)}}
      \cup
    {e @@ ("error_code" :> c) :
        e \in {EmptyObj, "error" :> None, "error" :> StrV(""),
                 "error" :> StrV("can't to deliver")},
        c \in {IntV(0), IntV(8), StrV("0"), StrV(" ۸ "), StrOf(<<1640>>),
                 FloatV(50)}}

SendFields == ("id" :> IntV(1)) @@ ("cnt" :> IntV(1)) @@ ("cost" :> FloatV(144))

\* the fields of a send reply as the gateway may write them: numbers, or
\* numerals, with white space around them or in the digits of another script
\* (U+3000 and U+2003 are spaces, U+0661 and U+0662 the digits one and two)
SendFieldsWritten ==
    {SendFields,
     ("id" :> StrV("17")) @@ ("cnt" :> StrV(" 12 ")) @@ ("cost" :> StrV("1.20")),
     ("id" :> IntV(1)) @@ ("cnt" :> StrV("۱۲")) @@ ("cost" :> StrV("۱۰۰.۰۱")),
     ("id" :> IntV(1)) @@ ("cnt" :> StrOf(<<12288, 1633, 1634, 8195>>))
        @@ ("cost" :> StrOf(<<1633, 46, 1637>>)),
     ("id" :> IntV(1)) @@ ("cnt" :> StrV("+7")) @@ ("cost" :> IntV(2)),
     ("id" :> None) @@ ("cnt" :> StrV("1_0")) @@ ("cost" :> StrV("144e-2"))}

CostFields == ("cnt" :> IntV(1)) @@ ("cost" :> FloatV(144))

BalanceFields ==
    ("balance" :> StrV("100.01")) @@ ("credit" :> FloatV(250))
        @@ ("currency" :> StrV("RUR"))

BalanceFieldsWritten ==
    {BalanceFields,
     ("balance" :> StrV("۱۰۰.۰۱")) @@ ("credit" :> StrV(" 1.44 "))
        @@ ("currency" :> StrV("RUR")),
     ("balance" :> StrOf(<<1633, 46, 1637>>)) @@ ("credit" :> StrV("-0.5"))
        @@ ("currency" :> StrV("")),
     ("balance" :> IntV(2)) @@ ("credit" :> StrV(".5"))
        @@ ("currency" :> StrV("EUR")),
     ("balance" :> StrV("1e2")) @@ ("credit" :> StrV("9999999.9900000001"))
        @@ ("currency" :> StrV("RUR"))}

\* the objects a response is constructed from: any of the keys with the
\* plain error fields; none or all of the keys with any error fields; any of
\* the keys with the fields written in any of the ways
ObjectsOf(fields, written) ==
    {e @@ Restrict(fields, ks) :
        e \in ErrPlain, ks \in SUBSET (DOMAIN fields)}
      \cup
    {e @@ Restrict(fields, ks) :
        e \in ErrParts, ks \in {{}, DOMAIN fields}}
      \cup
    {e @@ Restrict(f, ks) :
        e \in {EmptyObj,
                ("error" :> StrV("can't to deliver"))
                    @@ ("error_code" :> StrV(" ۸ "))},
        f \in written,
        ks \in SUBSET (DOMAIN fields)}

\* the keys StatusResponse.__init__ reads without a default
RequiredKeys ==
    {"status", "status_name", "last_date", "send_date",
     "send_timestamp", "last_timestamp"}

\* a delivered message, as the status call reports it
Delivered ==
    ("id" :> IntV(1)) @@ ("status" :> IntV(1))
        @@ ("status_name" :> StrV("Delivered"))
        @@ ("send_timestamp" :> IntV(1495823967))
        @@ ("last_timestamp" :> IntV(1495823972))
        @@ ("send_date" :> StrV("26.05.2017 21:39:27"))
        @@ ("last_date" :> StrV("26.05.2017 21:39:32"))
        @@ ("cost" :> StrV("1.20")) @@ ("phone" :> StrV("79262138080"))

\* a message not yet delivered: no last date, and sent when Moscow kept UTC+4
Pending ==
    ("id" :> IntV(2)) @@ ("status" :> IntV(0))
        @@ ("status_name" :> StrV("Sent"))
        @@ ("send_timestamp" :> IntV(1357034400))
        @@ ("last_timestamp" :> IntV(0))
        @@ ("send_date" :> StrV("01.01.2013 14:00:00"))
        @@ ("last_date" :> None)

\* an entry that reports an error in place of a status
NotFound ==
    ("id" :> IntV(3)) @@ ("phone" :> StrV("79000000001"))
        @@ ("error" :> StrV("record not found")) @@ ("error_code" :> IntV(3))

\* the dates a status may carry: a day that is none, an hour the clocks
\* repeated, a date in the digits of another script (U+06F0 to U+06F9,
\* U+0660 to U+0669), a date with text around it, with a mark after it, with
\* another date after it, the hour 24, a value that is no string
DatesWritten ==
    {StrV("31.02.2017 10:00:00"), StrV("26.10.2014 01:30:00"),
     StrV("01.01.2010 12:00:00"),
     StrV("۲۶.۰۵.۲۰۱۷ ۲۱:۳۹:۲۷"),
     StrOf(<<1633, 1634, 46, 1632, 1640, 46,
            1634, 1632, 1633, 1635, 32, 1633, 1635, 58, 1636, 1637, 58, 1633, 1632>>),
     StrV("sent 26.05.2017 21:39:27."), StrV("x26.05.2017 21:39:27"),
     StrV("26.05.2017 21:39:27 27.05.2017 10:00:00"),
     StrV("31.12.2017 24:00:00"), StrV("26.05.2017 24:00:01"),
     IntV(1495823967)}

\* the objects a StatusResponse is constructed from
StatusObjs ==
    {Restrict(Delivered, (DOMAIN Delivered) \ ks) : ks \in SUBSET RequiredKeys}
        \cup {e @@ Delivered : e \in ErrParts}
        \cup {Pending, NotFound, [Delivered EXCEPT !["send_date"] = StrV("n/a")]}
        \cup {[Delivered EXCEPT !["send_date"] = date] : date \in DatesWritten}
        \cup {[Delivered EXCEPT !["last_date"] = date] : date \in DatesWritten}
        \cup {[Delivered EXCEPT !["status"] = status] :
                status \in {StrV(" 20 "), StrV(""), FloatV(-150), StrV("۲۰"),
                            StrOf(<<160, 1634, 1632>>), BoolV(TRUE)}}

\* the HTTP status codes of a reply
StatusCodes == {200, 201, 404}

\* a body that is not JSON
Invalid == [t |-> "invalid"]

\* the replies that are refused on their status code
FailedReplies ==
    {[status_code |-> code, body |-> body] :
        code \in StatusCodes \ {200}, body \in {DictV(EmptyObj), Invalid}}

OkReplies(bodies) == {[status_code |-> 200, body |-> body] : body \in bodies}

SendBodies ==
    {DictV(EmptyObj), DictV(SendFields),
     DictV(("error" :> StrV("can't to deliver")) @@ ("id" :> IntV(1))
            @@ ("error_code" :> IntV(8))),
     DictV("error_code" :> IntV(8)),
     DictV("error" :> StrV("can't to deliver")),
     DictV(("error" :> StrV("")) @@ ("error_code" :> IntV(0))),
     DictV(("error" :> StrV("can't to deliver")) @@ ("error_code" :> StrV(" ۸ "))
            @@ ("cnt" :> StrOf(<<12288, 1633, 1634, 8195>>))),
     ListV(<<>>), Invalid}

CostBodies ==
    {DictV(EmptyObj), DictV(CostFields),
     DictV(("error" :> StrV("can't to deliver")) @@ ("error_code" :> IntV(8))),
     DictV("error_code" :> IntV(8)),
     DictV("error" :> StrV("can't to deliver")),
     DictV(("error" :> None) @@ ("error_code" :> IntV(0))),
     DictV(("error_code" :> StrOf(<<1640>>)) @@ ("cost" :> StrV("۱۰۰.۰۱"))),
     ListV(<<>>), Invalid}

BalanceBodies ==
    {DictV(EmptyObj),
     DictV(("balance" :> StrV("100.01")) @@ ("currency" :> StrV("RUR"))),
     DictV(("error" :> StrV("authorise error")) @@ ("error_code" :> IntV(2))),
     DictV("error_code" :> IntV(2)),
     DictV("error" :> StrV("authorise error")),
     DictV(("error" :> StrV("authorise error"))
            @@ ("balance" :> StrOf(<<1633, 46, 1637>>))),
     ListV(<<>>), Invalid}

\* the objects a status list is made of
StatusElements == {Delivered, Pending, NotFound}

\* the sequences of at most n members of S
RECURSIVE SeqsUpTo(_, _)
SeqsUpTo(S, n) ==
    IF n = 0 THEN {<<>>}
    ELSE LET shorter == SeqsUpTo(S, n - 1) IN
         shorter \cup {Append(q, x) : q \in shorter, x \in S}

StatusBodies ==
    {DictV(EmptyObj),
     DictV(("error" :> StrV("id is not found")) @@ ("error_code" :> IntV(3))),
     Invalid}
        \cup {ListV(l) : l \in SeqsUpTo(StatusElements, MaxList)}

----------------------------------------------------------------------------
(* The state machine *)

Logins == {"alexey"}
Passwords == {"psw"}
Senders == {None, StrV("me")}

Init ==
    /\ \E login \in Logins, password \in Passwords, sender \in Senders :
            /\ client = SMSCInit(login, password, sender)
            /\ last = [op |-> "SMSC", pc |-> "done", login |-> login,
                       password |-> password, sender |-> sender]
    /\ calls = <<>>
    /\ gets = <<>>

\* the caller constructs a message, in an interpreter started with or
\* without -O
Construct ==
    \E cls \in MessageClasses, text \in Texts, kwargs \in KwargsSet,
       debug \in BOOLEAN :
        /\ last' = [op |-> "construct", pc |-> "done", cls |-> cls,
                    text |-> text, kwargs |-> kwargs, debug |-> debug,
                    outcome |-> NewMessage(cls, text, kwargs, debug)]
        /\ UNCHANGED <<client, calls, gets>>

\* the caller constructs a message and encodes it
CallEncode ==
    \E cls \in MessageClasses, text \in Texts, kwargs \in KwargsSet,
       debug \in BOOLEAN :
        LET made == NewMessage(cls, text, kwargs, debug) IN
        /\ made.raised = ""
        /\ last' = [op |-> "encode", pc |-> "done", cls |-> cls,
                    text |-> text, kwargs |-> kwargs, debug |-> debug,
                    outcome |-> Return(Encode(made.value))]
        /\ UNCHANGED <<client, calls, gets>>

\* the caller constructs a SendResponse
NewSendResponse ==
    \E obj \in ObjectsOf(SendFields, SendFieldsWritten) :
        /\ last' = [op |-> "SendResponse", pc |-> "done", obj |-> obj,
                    outcome |-> SendResponse(obj)]
        /\ UNCHANGED <<client, calls, gets>>

\* the caller constructs a CostResponse
NewCostResponse ==
    \E obj \in ObjectsOf(CostFields,
                       {Restrict(f, DOMAIN CostFields) : f \in SendFieldsWritten}) :
        /\ last' = [op |-> "CostResponse", pc |-> "done", obj |-> obj,
                    outcome |-> CostResponse(obj)]
        /\ UNCHANGED <<client, calls, gets>>

\* the caller constructs a BalanceResponse
NewBalanceResponse ==
    \E obj \in ObjectsOf(BalanceFields, BalanceFieldsWritten) :
        /\ last' = [op |-> "BalanceResponse", pc |-> "done", obj |-> obj,
                    outcome |-> BalanceResponse(obj)]
        /\ UNCHANGED <<client, calls, gets>>

\* what is known once a StatusResponse is constructed from obj: the outcome,
\* and the object as the constructor leaves it
StatusResponseMade(obj, made) ==
    [op |-> "StatusResponse", pc |-> "done", obj |-> obj,
     outcome |-> [raised |-> made.raised, value |-> made.value],
     after |-> made.obj]

\* the caller constructs a StatusResponse from an object it holds; after is
\* that object once the constructor is finished with it
NewStatusResponse ==
    \E obj \in StatusObjs, arrow \in Arrows :
        /\ last' = StatusResponseMade(obj, StatusResponse(obj, arrow))
        /\ UNCHANGED <<client, calls, gets>>

\* a call may start when none is waiting for its reply
CanCall == last.pc = "done" /\ Len(calls) < MaxCalls

\* a slip: a URL already fetched is not fetched again
SentOncePerUrl(log, request) ==
    IF \E i \in DOMAIN log : log[i] = request.path
    THEN log
    ELSE Append(log, request.path)

\* requests.get(f.url): the request goes out
Sent(log, request) == Append(log, request.path)

\* the call op is waiting in requests.get(f.url) for its reply
Waiting(op) == last.op = op /\ last.pc = "get"

\* the call that waits, finished with the reply r
Finished(r, outcome) ==
    [pc |-> "done", reply |-> r, outcome |-> outcome] @@ last

\* send, up to requests.get(f.url): the request is built and sent
Send ==
    \E to \in Recipients, message \in ApiMessages :
        LET request == SendRequest(client, to, message) IN
        /\ CanCall
        /\ calls' = Append(calls, "send")
        /\ last' = [op |-> "send", pc |-> "get", to |-> to,
                    message |-> message, request |-> request]
        /\ gets' = Sent(gets, request)
        /\ UNCHANGED client

\* send, from the reply on: it returns or raises
SendDone ==
    \E r \in FailedReplies \cup OkReplies(SendBodies) :
        /\ Waiting("send")
        /\ last' = Finished(r, SendReply(r))
        /\ UNCHANGED <<client, calls, gets>>

\* get_cost, up to requests.get(f.url)
GetCost ==
    \E to \in Recipients, message \in ApiMessages :
        LET request == GetCostRequest(client, to, message) IN
        /\ CanCall
        /\ calls' = Append(calls, "get_cost")
        /\ last' = [op |-> "get_cost", pc |-> "get", to |-> to,
                    message |-> message, request |-> request]
        /\ gets' = Sent(gets, request)
        /\ UNCHANGED client

\* get_cost, from the reply on
GetCostDone ==
    \E r \in FailedReplies \cup OkReplies(CostBodies) :
        /\ Waiting("get_cost")
        /\ last' = Finished(r, GetCostReply(r))
        /\ UNCHANGED <<client, calls, gets>>

\* get_status, up to requests.get(f.url)
GetStatus ==
    \E to \in Recipients, msg_id \in MessageIds :
        LET request == GetStatusRequest(client, to, msg_id) IN
        /\ CanCall
        /\ calls' = Append(calls, "get_status")
        /\ last' = [op |-> "get_status", pc |-> "get", to |-> to,
                    msg_id |-> msg_id, request |-> request]
        /\ gets' = Sent(gets, request)
        /\ UNCHANGED client

\* get_status, from the reply on
GetStatusDone ==
    \E r \in FailedReplies \cup OkReplies(StatusBodies), arrow \in Arrows :
        /\ Waiting("get_status")
        /\ last' = Finished(r, GetStatusReply(r, arrow))
        /\ UNCHANGED <<client, calls, gets>>

\* get_balance, up to requests.get(f.url)
GetBalance ==
    LET request == GetBalanceRequest(client) IN
    /\ CanCall
    /\ calls' = Append(calls, "get_balance")
    /\ last' = [op |-> "get_balance", pc |-> "get", request |-> request]
    /\ gets' = Sent(gets, request)
    /\ UNCHANGED client

\* get_balance, from the reply on
GetBalanceDone ==
    \E r \in FailedReplies \cup OkReplies(BalanceBodies) :
        /\ Waiting("get_balance")
        /\ last' = Finished(r, GetBalanceReply(r))
        /\ UNCHANGED <<client, calls, gets>>

\* the client: the four calls and their replies
Next ==
    \/ Send \/ SendDone
    \/ GetCost \/ GetCostDone
    \/ GetStatus \/ GetStatusDone
    \/ GetBalance \/ GetBalanceDone

Spec == Init /\ [][Next]_vars

\* the messages: construction and encode()
NextMessages == Construct \/ CallEncode

SpecMessages == Init /\ [][NextMessages]_vars

\* the responses: construction from a decoded object
NextResponses ==
    \/ NewSendResponse
    \/ NewCostResponse
    \/ NewBalanceResponse
    \/ NewStatusResponse

SpecResponses == Init /\ [][NextResponses]_vars

----------------------------------------------------------------------------
(* Messages *)

OptionKeys == {"translit", "tinyurl", "maxsms"}

\* the last operation is the construction of a message
Constructed == last.op = "construct"

\* the last operation is encode() on a message just constructed
Encoded == last.op = "encode"

\* C1: each of the three constructors makes a message from every text of at
\* most 800 characters and, for every longer text, fails with the error kind
\* InvalidArgument and makes no message.
C1_LongTextIsInvalidArgument ==
    Constructed =>
        IF Len(last.text) <= 800
        THEN last.outcome.raised = "" /\ last.outcome.value # None
        ELSE last.outcome.raised = "InvalidArgument" /\ last.outcome.value = None

\* the keys encode() is to give for a message of class cls made with kwargs;
\* an option given as None counts as not supplied
ExpectedKeys(cls, kwargs) ==
    {"mes"}
        \cup (IF cls = "FlashMessage" THEN {"flash"} ELSE {})
        \cup (IF cls = "ViberMessage" THEN {"viber"} ELSE {})
        \cup {k \in OptionKeys : k \in DOMAIN kwargs /\ kwargs[k] # None}

\* C2: encode() gives exactly the keys mes (the text), flash = 1 for a
\* FlashMessage only, viber = 1 for a ViberMessage only, and each of translit,
\* tinyurl, maxsms exactly when it was supplied, with the supplied value;
\* no key appears twice and no other key appears.
C2_EncodeKeys ==
    Encoded =>
        LET enc == last.outcome.value IN
        /\ Keys(enc) = ExpectedKeys(last.cls, last.kwargs)
        /\ Len(enc) = Cardinality(Keys(enc))
        /\ Item(enc, "mes") = StrV(last.text)
        /\ \A k \in Keys(enc) \cap {"flash", "viber"} : Item(enc, k) = IntV(1)
        /\ \A k \in Keys(enc) \cap OptionKeys : Item(enc, k) = last.kwargs[k]

\* a ViberMessage made with a zero option, encoded
C2_Witness ==
    /\ Encoded
    /\ last.cls = "ViberMessage"
    /\ last.kwargs = ("translit" :> IntV(0))
    /\ Keys(last.outcome.value) = {"mes", "viber", "translit"}

----------------------------------------------------------------------------
(* Responses *)

ResponseClasses ==
    {"SendResponse", "CostResponse", "BalanceResponse", "StatusResponse"}

\* the last operation made a response from the object last.obj
Built == last.op \in ResponseClasses /\ last.outcome.raised = ""

\* the integer each count and each error code of the inputs writes; a
\* fraction is read as its whole part
CountWritten ==
    (StrV("0") :> 0) @@ (StrV(" ۸ ") :> 8) @@ (StrOf(<<1640>>) :> 8)
        @@ (FloatV(50) :> 0) @@ (StrV(" 12 ") :> 12) @@ (StrV("۱۲") :> 12)
        @@ (StrOf(<<12288, 1633, 1634, 8195>>) :> 12) @@ (StrV("+7") :> 7)
        @@ (StrV("1_0") :> 10)

\* the integer a value stands for
CountOf(v) == IF v.t = "int" THEN v.v ELSE CountWritten[v]

\* the error code a raw object carries, 0 when it carries none
RawCode(obj) ==
    IF "error_code" \in DOMAIN obj THEN CountOf(obj["error_code"]) ELSE 0

\* the raw object carries an error text that is a non-empty string
RawHasText(obj) ==
    /\ "error" \in DOMAIN obj
    /\ obj["error"].t = "str"
    /\ obj["error"].v # ""

\* the values of an error field that stand for no error: null, the empty
\* string, the numbers 0 and 0.0, false, the empty list, the empty object
Empties ==
    {None, StrV(""), IntV(0), FloatV(0), BoolV(FALSE), ListV(<<>>),
     DictV(EmptyObj)}

\* C5, as claimed: the error accessor of every response gives an Error
\* exactly when error_code is not 0 or error is a non-empty string.
C5_ErrorAccessor ==
    Built =>
        (ErrorOf(last.outcome.value) # None
            <=> (RawCode(last.obj) # 0 \/ RawHasText(last.obj)))

\* C5, amended: the error accessor of every response gives None exactly when
\* error_code is 0 or absent and error is absent or stands for no error
\* (null, the empty string, 0, 0.0, false, an empty list or object); else it
\* gives an Error, so for a non-empty string and also for any other value
\* that is not one of those.  With error absent, null or a string, it gives
\* an Error exactly when error_code is not 0 or error is a non-empty string.
C5_ErrorAccessorByTruth ==
    Built =>
        LET given == ErrorOf(last.outcome.value) # None
            error == DictGet(last.obj, "error", None)
        IN
        /\ ~given <=> (RawCode(last.obj) = 0 /\ error \in Empties)
        /\ (error = None \/ error.t = "str") =>
                (given <=> (RawCode(last.obj) # 0 \/ RawHasText(last.obj)))

\* a response made from an object whose error is the number 5 and whose
\* error_code is 0: the accessor gives an Error for it
C5_Witness ==
    /\ Built
    /\ last.op = "BalanceResponse"
    /\ "error" \in DOMAIN last.obj /\ last.obj["error"] = IntV(5)
    /\ "error_code" \in DOMAIN last.obj /\ last.obj["error_code"] = IntV(0)
    /\ ErrorOf(last.outcome.value) = [t |-> "SMSCError", code |-> 0, error |-> IntV(5)]

\* C6, as claimed: the Error is present exactly when error_code is not 0 or
\* the raw object has an error field at all, whatever its value.
C6_ErrorFieldPresent ==
    Built =>
        (ErrorOf(last.outcome.value) # None
            <=> (RawCode(last.obj) # 0 \/ "error" \in DOMAIN last.obj))

\* C6, amended: without an error field the Error is present exactly when
\* error_code is not 0; with an error field it is present exactly when
\* error_code is not 0 or the field holds a value that counts as true: not
\* null, not the empty string, not 0 or 0.0, not false, not an empty list or
\* object.
C6_ErrorFieldCounts ==
    Built =>
        LET present == ErrorOf(last.outcome.value) # None IN
        IF "error" \notin DOMAIN last.obj
        THEN present <=> RawCode(last.obj) # 0
        ELSE present <=> (RawCode(last.obj) # 0
                            \/ last.obj["error"] \notin Empties)

\* a response made from an object that has an error field holding the empty
\* list and error_code 0: no Error
C6_Witness ==
    /\ Built
    /\ last.op = "SendResponse"
    /\ "error" \in DOMAIN last.obj /\ last.obj["error"] = ListV(<<>>)
    /\ "error_code" \in DOMAIN last.obj /\ last.obj["error_code"] = IntV(0)
    /\ ErrorOf(last.outcome.value) = None

\* the keys that never show in the data of a StatusResponse
HiddenKeys == {"status", "status_name", "send_timestamp", "last_timestamp"}

DateKeys == {"send_date", "last_date"}

\* an instant of Moscow time: the date, the time of day, and the minutes
\* Moscow was ahead of UTC then
Instant(year, month, day, hour, minute, second, utcoffset) ==
    [t |-> "datetime", year |-> year, month |-> month, day |-> day,
     hour |-> hour, minute |-> minute, second |-> second,
     utcoffset |-> utcoffset]

\* the instant each date of the inputs writes, when it is read as one.  A
\* date between texts is the date; of two dates the first is read; the hour
\* 24:00:00 is the start of the next day.
Instants ==
    (StrV("26.05.2017 21:39:27")
                :> Instant(2017, 5, 26, 21, 39, 27, 180))
        @@ (StrV("26.05.2017 21:39:32")
                :> Instant(2017, 5, 26, 21, 39, 32, 180))
        @@ (StrV("01.01.2013 14:00:00")
                :> Instant(2013, 1, 1, 14, 0, 0, 240))
        @@ (StrV("26.10.2014 01:30:00")
                :> Instant(2014, 10, 26, 1, 30, 0, 240))
        @@ (StrV("01.01.2010 12:00:00")
                :> Instant(2010, 1, 1, 12, 0, 0, 180))
        @@ (StrV("۲۶.۰۵.۲۰۱۷ ۲۱:۳۹:۲۷")
                :> Instant(2017, 5, 26, 21, 39, 27, 180))
        @@ (StrOf(<<1633, 1634, 46, 1632, 1640, 46, 1634, 1632, 1633, 1635, 32, 1633, 1635, 58, 1636, 1637, 58, 1633, 1632>>)
                :> Instant(2013, 8, 12, 13, 45, 10, 240))
        @@ (StrV("sent 26.05.2017 21:39:27.")
                :> Instant(2017, 5, 26, 21, 39, 27, 180))
        @@ (StrV("x26.05.2017 21:39:27")
                :> Instant(2017, 5, 26, 21, 39, 27, 180))
        @@ (StrV("26.05.2017 21:39:27 27.05.2017 10:00:00")
                :> Instant(2017, 5, 26, 21, 39, 27, 180))
        @@ (StrV("31.12.2017 24:00:00")
                :> Instant(2018, 1, 1, 0, 0, 0, 180))

\* C9: the data of every StatusResponse has none of the keys status,
\* status_name, send_timestamp, last_timestamp and every other key of the raw
\* object, with the raw value; a send_date or last_date that is not null is
\* replaced by the instant it reads as, in Moscow time.
C9_StatusData ==
    (Built /\ last.op = "StatusResponse") =>
        LET data == last.outcome.value.data
            obj == last.obj
        IN
        /\ DOMAIN data = (DOMAIN obj) \ HiddenKeys
        /\ \A k \in (DOMAIN data) \ DateKeys : data[k] = obj[k]
        /\ \A k \in (DOMAIN data) \cap DateKeys :
                IF obj[k] = None THEN data[k] = None
                ELSE data[k] = Instants[obj[k]]

\* a StatusResponse made from a delivered message whose send date is written
\* in Arabic-Indic digits
C9_Witness ==
    /\ Built
    /\ last.op = "StatusResponse"
    /\ last.obj["send_date"] =
            StrOf(<<1633, 1634, 46, 1632, 1640, 46, 1634, 1632, 1633, 1635,
                    32, 1633, 1635, 58, 1636, 1637, 58, 1633, 1632>>)
    /\ last.outcome.value.data["send_date"] = Instant(2013, 8, 12, 13, 45, 10, 240)
    /\ DOMAIN last.outcome.value.data =
            {"id", "send_date", "last_date", "cost", "phone"}

----------------------------------------------------------------------------
(* The client *)

Calls == {"send", "get_cost", "get_status", "get_balance"}

\* the last call has returned or raised
Done(op) == last.op = op /\ last.pc = "done"

\* the error each call raises for itself
ErrorKind(op) ==
    CASE op = "send" -> "SendError"
      [] op = "get_cost" -> "GetCostError"
      [] op = "get_status" -> "GetStatusError"
      [] op = "get_balance" -> "GetBalanceError"

\* C3: whenever the reply's status code is not exactly 200, each of the four
\* calls raises its own error kind, returns no response and does not decode
\* the body.
C3_Not200Raises ==
    \A op \in Calls :
        (Done(op) /\ last.reply.status_code # 200) =>
            /\ last.outcome.raised = ErrorKind(op)
            /\ last.outcome.value = None
            /\ ~last.outcome.decoded

\* get_cost answered 201 with a body that is not JSON
C3_Witness ==
    /\ Done("get_cost")
    /\ last.reply.status_code = 201
    /\ last.reply.body = Invalid
    /\ last.outcome.raised = "GetCostError"

\* the response class each call returns
ResponseClass(op) ==
    CASE op = "send" -> "SendResponse"
      [] op = "get_cost" -> "CostResponse"
      [] op = "get_balance" -> "BalanceResponse"

\* the reply is a 200 whose body is an object carrying a gateway error
GatewayError(r) ==
    /\ r.status_code = 200
    /\ r.body.t = "dict"
    /\ (RawCode(r.body.v) # 0 \/ RawHasText(r.body.v))

\* C4: send, get_cost and get_balance, answered 200 with an object carrying a
\* gateway error, do not raise: they return their response, whose error
\* accessor gives the code and the text of the object.
C4_GatewayErrorReturned ==
    \A op \in {"send", "get_cost", "get_balance"} :
        (Done(op) /\ GatewayError(last.reply)) =>
            /\ last.outcome.raised = ""
            /\ last.outcome.value.cls = ResponseClass(op)
            /\ ErrorOf(last.outcome.value) =
                    [t |-> "SMSCError",
                     code |-> RawCode(last.reply.body.v),
                     error |-> DictGet(last.reply.body.v, "error", None)]

\* send answered 200 with the object of the tests: cannot deliver, code 8
C4_Witness ==
    /\ Done("send")
    /\ GatewayError(last.reply)
    /\ ErrorOf(last.outcome.value) =
            [t |-> "SMSCError", code |-> 8, error |-> StrV("can't to deliver")]

\* C7: get_status answered 200 with a body that decodes to an object, the
\* empty object included, raises GetStatusError and returns nothing.
C7_DictBodyRaises ==
    (Done("get_status") /\ last.reply.status_code = 200
            /\ last.reply.body.t = "dict") =>
        /\ last.outcome.raised = "GetStatusError"
        /\ last.outcome.value = None

\* get_status answered 200 with the empty object
C7_Witness ==
    /\ Done("get_status")
    /\ last.reply = [status_code |-> 200, body |-> DictV(EmptyObj)]
    /\ last.outcome.raised = "GetStatusError"

\* C8: get_status answered 200 with a list of n objects returns n
\* StatusResponse objects, the i-th made from the i-th object.
C8_ListBodyMapped ==
    (Done("get_status") /\ last.reply.status_code = 200
            /\ last.reply.body.t = "list") =>
        /\ last.outcome.raised = ""
        /\ Len(last.outcome.value) = Len(last.reply.body.v)
        /\ \A i \in 1..Len(last.reply.body.v) :
                /\ last.outcome.value[i].cls = "StatusResponse"
                /\ last.outcome.value[i].data["id"] = last.reply.body.v[i]["id"]

\* a single value followed by one comma
WithComma(v) == v \o ","

\* the strings of l with a comma between each two, built from the right end
RECURSIVE CommaBetween(_)
CommaBetween(l) ==
    IF Len(l) = 0 THEN ""
    ELSE IF Len(l) = 1 THEN l[1]
    ELSE CommaBetween(SubSeq(l, 1, Len(l) - 1)) \o "," \o l[Len(l)]

\* what goes on the wire for a phone or an id of get_status
OnTheWire(x) == IF x.t = "str" THEN WithComma(x.v) ELSE CommaBetween(x.v)

\* C10: get_status sends phone and id by one rule: a single string v goes as
\* v followed by one comma, a list goes comma-joined with no trailing comma.
C10_StatusLists ==
    last.op = "get_status" =>
        /\ Keys(last.request.query) = {"login", "psw", "fmt", "charset", "all", "phone", "id"}
        /\ Item(last.request.query, "phone") = StrV(OnTheWire(last.to))
        /\ Item(last.request.query, "id") = StrV(OnTheWire(last.msg_id))

\* get_status for one phone given as a string and one id given in a list
C10_Witness ==
    /\ last.op = "get_status"
    /\ last.to = StrV("79999999999")
    /\ last.msg_id = ListV(<<"1">>)
    /\ Item(last.request.query, "phone") = StrV("79999999999,")
    /\ Item(last.request.query, "id") = StrV("1")

\* the path each call fetches
Endpoint(op) ==
    CASE op = "send" -> "send.php"
      [] op = "get_cost" -> "send.php"
      [] op = "get_status" -> "status.php"
      [] op = "get_balance" -> "balance.php"

\* C11: every invocation of the four calls performs exactly one GET, whether
\* it then returns, fails on the status, fails on an object body or fails in
\* parsing: after k invocations there are k GETs, the i-th to the endpoint of
\* the i-th call.
C11_OneGetPerCall ==
    /\ Len(gets) = Len(calls)
    /\ \A i \in 1..Len(calls) : gets[i] = Endpoint(calls[i])

\* two calls to one endpoint, the second ended by a failure in parsing
C11_Witness ==
    /\ calls = <<"get_cost", "send">>
    /\ gets = <<"send.php", "send.php">>
    /\ Done("send")
    /\ last.outcome.raised = "ValueError"

\* the request with its cost parameter set to mode
WithCost(request, mode) ==
    [request EXCEPT !.query = SetItem(@, "cost", IntV(mode))]

\* C12: for one client, recipients and message, the request of get_cost is
\* the request of send (endpoint send.php, login, psw, fmt, sender, phones and
\* the encoded message) with cost 1 where send has cost 2.
C12_CostRequestIsSendRequest ==
    /\ last.op = "get_cost" =>
            LET sent == SendRequest(client, last.to, last.message)
            IN  /\ last.request.path = "send.php"
                /\ Item(last.request.query, "cost") = IntV(1)
                /\ Item(sent.query, "cost") = IntV(2)
                /\ last.request = WithCost(sent, 1)
                /\ sent = WithCost(last.request, 2)
    /\ last.op = "send" =>
            LET asked == GetCostRequest(client, last.to, last.message)
            IN  /\ last.request.path = "send.php"
                /\ Item(last.request.query, "cost") = IntV(2)
                /\ Item(asked.query, "cost") = IntV(1)
                /\ last.request = WithCost(asked, 2)
                /\ asked = WithCost(last.request, 1)

\* the cost of a message with options, to a list of two phones, from a client
\* with a sender of its own
C12_Witness ==
    /\ Done("get_cost")
    /\ last.to = ListV(<<"79999999999", "79262138080">>)
    /\ Keys(Encode(last.message)) = {"mes", "translit", "tinyurl", "maxsms"}
    /\ client.sender = "me"
    /\ Item(last.request.query, "phones") = StrV("79999999999,79262138080")

\* the fields of the responses that are read with a default
FieldsOf(cls) ==
    CASE cls = "SendResponse" -> {"id", "cnt", "cost"}
      [] cls = "CostResponse" -> {"cnt", "cost"}
      [] cls = "BalanceResponse" -> {"balance", "credit", "currency"}

\* what each field is when the raw object has no such key: no message id,
\* count 0, cost 0.0, balance 0.0, credit 0.0, currency ""
Defaults ==
    [id |-> None, cnt |-> 0, cost |-> 0, balance |-> 0, credit |-> 0,
     currency |-> ""]

\* the hundredths each amount of the inputs writes
MoneyWritten ==
    (StrV("100.01") :> 10001) @@ (StrV("1.20") :> 120)
        @@ (StrV("۱۰۰.۰۱") :> 10001) @@ (StrOf(<<1633, 46, 1637>>) :> 150)
        @@ (StrV("144e-2") :> 144) @@ (StrV(" 1.44 ") :> 144)
        @@ (StrV("-0.5") :> -50) @@ (StrV(".5") :> 50) @@ (StrV("1e2") :> 10000)
        @@ (StrV("9999999.9900000001") :> 999999999)

\* the amount a value stands for, in hundredths
MoneyOf(v) ==
    CASE v.t = "float" -> v.v
      [] v.t = "int" -> 100 * v.v
      [] OTHER -> MoneyWritten[v]

\* what a field is when the raw object has the value v under its key: the
\* message id as it stands, the currency as it stands, a count or an amount
\* as the number its value stands for
AsReturned(field, v) ==
    CASE field = "id" -> v
      [] field = "cnt" -> CountOf(v)
      [] field = "currency" -> v.v
      [] OTHER -> MoneyOf(v)

\* C13: a SendResponse, CostResponse or BalanceResponse is constructed from a
\* raw object lacking any of its field keys; a field whose key is absent has
\* its default, a field whose key is present has the raw value.
C13_MissingFieldsDefault ==
    last.op \in {"SendResponse", "CostResponse", "BalanceResponse"} =>
        /\ last.outcome.raised = ""
        /\ \A field \in FieldsOf(last.op) :
                last.outcome.value[field] =
                    IF field \in DOMAIN last.obj
                    THEN AsReturned(field, last.obj[field])
                    ELSE Defaults[field]

\* a SendResponse made from an object with nothing but a count, written in
\* Arabic-Indic digits between spaces: the count is read, the message id and
\* the cost have their defaults
C13_Witness ==
    /\ last.op = "SendResponse"
    /\ DOMAIN last.obj = {"cnt"}
    /\ last.obj["cnt"] = StrOf(<<12288, 1633, 1634, 8195>>)
    /\ last.outcome.raised = ""
    /\ last.outcome.value.cnt = 12
    /\ last.outcome.value.id = None
    /\ last.outcome.value.cost = 0

\* C14: every error that comes out of constructing a message, or out of one
\* of the four calls answered by a reply whose body is JSON, is of a class
\* under SMSCException; a text that is too long and a status element lacking
\* one of its keys are among them.
C14_ErrorsShareRoot ==
    /\ (Constructed /\ last.outcome.raised # "") =>
            last.outcome.raised \in SMSCExceptions
    /\ (last.op \in Calls /\ last.pc = "done" /\ last.reply.body # Invalid
            /\ last.outcome.raised # "") =>
            last.outcome.raised \in SMSCExceptions

\* C15: a StatusResponse is constructed from a raw object that lacks
\* last_date, send_date or both (and has its other keys): the construction
\* succeeds, a date that is present is parsed and a date that is absent is
\* absent from the data.
C15_AbsentDatesAccepted ==
    (/\ last.op = "StatusResponse"
     /\ (RequiredKeys \ DateKeys) \subseteq DOMAIN last.obj
     /\ ~(DateKeys \subseteq DOMAIN last.obj)) =>
        /\ last.outcome.raised = ""
        /\ \A k \in DateKeys :
                IF k \in DOMAIN last.obj
                THEN last.outcome.value.data[k].t = "datetime"
                ELSE k \notin DOMAIN last.outcome.value.data

\* the parameters a call is to send besides login, psw and fmt
OwnParams(call) ==
    CASE call.op \in {"send", "get_cost"} ->
            {"sender", "cost", "phones"} \cup Keys(Encode(call.message))
      [] call.op = "get_status" -> {"charset", "all", "phone", "id"}
      [] call.op = "get_balance" -> {"cur"}

\* the request of the last call is made of the client's login, password and
\* sender, of fmt 3 and of the arguments of this call, each parameter once
RequestOfThisCall ==
    last.op \in Calls =>
        LET q == last.request.query IN
        /\ Item(q, "login") = StrV(client.login)
        /\ Item(q, "psw") = StrV(client.password)
        /\ Item(q, "fmt") = IntV(3)
        /\ Keys(q) = {"login", "psw", "fmt"} \cup OwnParams(last)
        /\ Len(q) = Cardinality(Keys(q))
        /\ last.op \in {"send", "get_cost"} =>
                /\ Item(q, "sender") = StrV(client.sender)
                /\ Item(q, "phones") =
                        StrV(IF last.to.t = "str" THEN last.to.v
                             ELSE CommaBetween(last.to.v))
                /\ Item(q, "mes") = StrV(last.message.text)
        /\ last.op = "get_status" =>
                /\ Item(q, "phone") = StrV(OnTheWire(last.to))
                /\ Item(q, "id") = StrV(OnTheWire(last.msg_id))

\* the client as it is constructed: the login, the password and the sender
\* given, the sender SMSC.ru when none is given
AsConstructed ==
    last.op = "SMSC" =>
        client = [login |-> last.login, password |-> last.password,
                  sender |-> IF last.sender = None THEN "SMSC.ru"
                             ELSE last.sender.v]

\* C16: no call, returning or raising, changes the client's login, password
\* or sender, which stay as constructed (sender SMSC.ru when none was given);
\* every request carries that login and password and fmt 3, and nothing of an
\* earlier call's arguments.
C16_CallsLeaveClientAlone ==
    /\ [](AsConstructed /\ RequestOfThisCall)
    /\ [][client' = client]_vars

\* a balance call that raises, made after a send by a client constructed
\* without a sender
C16_Witness ==
    /\ calls = <<"send", "get_balance">>
    /\ Done("get_balance")
    /\ last.outcome.raised # ""
    /\ client.sender = "SMSC.ru"
    /\ Keys(last.request.query) = {"login", "psw", "fmt", "cur"}

\* C17: constructing a StatusResponse changes the raw object the caller
\* holds: status and status_name, and nothing else, are removed from it; every
\* other key, the two timestamps and the two dates among them, is still there
\* with its raw value.  The data of the response is another mapping: what the
\* constructor then does to the data (dates parsed, timestamps removed) does
\* not show in the caller's object.
C17_RawLosesStatusOnly ==
    (Built /\ last.op = "StatusResponse") =>
        LET data == last.outcome.value.data IN
        /\ {"status", "status_name"} \subseteq DOMAIN last.obj
        /\ DOMAIN last.after = (DOMAIN last.obj) \ {"status", "status_name"}
        /\ \A k \in DOMAIN last.after : last.after[k] = last.obj[k]
        /\ {"send_timestamp", "last_timestamp"} \subseteq DOMAIN last.after
        /\ {"send_timestamp", "last_timestamp"} \cap DOMAIN data = {}
        /\ \A k \in DateKeys :
                /\ k \in DOMAIN last.after
                /\ last.obj[k] # None =>
                        /\ last.after[k].t = "str"
                        /\ data[k].t = "datetime"

\* the delivered message of the tests, after a StatusResponse is made from it
C17_Witness ==
    /\ Built
    /\ last.op = "StatusResponse"
    /\ last.obj = Delivered
    /\ DOMAIN last.after =
            {"id", "send_timestamp", "last_timestamp", "send_date", "last_date",
             "cost", "phone"}
    /\ last.after["last_date"] = StrV("26.05.2017 21:39:32")

====
